---- MODULE Spec2Model ----
(***************************************************************************)
(* A model of TemporaryStore (crates/sui-types/src/temporary_store.rs):    *)
(* the per-transaction buffer of written and deleted objects, gas          *)
(* smashing, gas charging with its recovery path, and finalisation.        *)
(*                                                                         *)
(* One action per public operation of the store.  The pure cores of the    *)
(* operations are operators over a store record                            *)
(*     [written, deleted, events, bad]                                     *)
(* where bad collects the names of the debug_assert!s whose condition was  *)
(* false.  The model is the release build, which goes on after them; the   *)
(* runs of a debug build are the prefixes that end before the first one.   *)
(***************************************************************************)
EXTENDS Integers, Sequences, FiniteSets, TLC

VARIABLES
    input_objects,       \* BTreeMap<ObjectID, Object>, the input snapshot
    lamport_timestamp,   \* SequenceNumber given to everything written/deleted
    mutable_input_refs,  \* Vec<ObjectRef>, as <<id, version>> pairs
    written,             \* BTreeMap<ObjectID, (SingleTxContext, Object, WriteKind)>
    deleted,             \* BTreeMap<ObjectID, (SingleTxContext, SequenceNumber, DeleteKind)>
    events,              \* Vec<Event> logged by the execution
    gas_charged,         \* Option<(SuiAddress, ObjectID, GasCostSummary)>
    gas,                 \* the transaction's gas payment: the ids of its gas coins
    gas_status,          \* the gas meter (SuiGasStatus), owned by the executor
    execution_result,    \* the executor's Result, passed to charge_gas by &mut
    inner,               \* the InnerTemporaryStore returned by into_inner, or NoInner
    effects,             \* the TransactionEffects returned by to_effects, or NoEffects
    disciplined,         \* history: no write-after-delete / delete-after-write so far
    nops,                \* history: number of mutation calls made by the execution
    logged,              \* history: the events passed to log_event since the last clearing
    last_write,          \* history: per id, the object last passed to write_object since then
    hist                 \* history: the last engine operation and how it went

vars == <<input_objects, lamport_timestamp, mutable_input_refs, written, deleted,
          events, gas_charged, gas, gas_status, execution_result,
          inner, effects, disciplined, nops, logged, last_write, hist>>

-----------------------------------------------------------------------------
(* Bounds of the model *)

MaxOps == 2          \* write/delete/log calls made by one execution
MaxEvents == 2       \* events logged by one execution
U64Bits == 8         \* width given to the u64 coin balance

U64Max == 2^U64Bits - 1

-----------------------------------------------------------------------------
(* Identifiers, addresses, digests *)

Ids == 1..6
InputIds == 1..4            \* ids 1,2,3 are gas coins, 4 a Move object; 5, 6 are no inputs
CoinIds == {1, 2, 3}

ZeroAddress == 0            \* SuiAddress::ZERO
Sender == 1
Recipient == 2

ZeroId == 0                 \* ObjectID::ZERO
FrameworkId == 8            \* the package id of engine contexts
UserPackageId == 9

TxDigest == 1               \* self.tx_digest
OldDigest == 0              \* the digest of an earlier transaction

SequenceNumberMIN == 0
StrangeVersion == 9         \* a version an undisciplined adapter may pass

NoObject == [none |-> TRUE]
NoErr == [kind |-> "none", pass |-> 0]
NoInner == [none |-> TRUE]
NoEffects == [none |-> TRUE]
NoGasCharged == [none |-> TRUE]

EmptyMap == [x \in {} |-> 0]

Put(m, k, v) == [x \in (DOMAIN m) \cup {k} |-> IF x = k THEN v ELSE m[x]]

Min(S) == CHOOSE x \in S : \A y \in S : x <= y
Max(S) == CHOOSE x \in S : \A y \in S : x >= y

RECURSIVE SortedSeq(_)
\* The keys of a BTreeMap in iteration order.
SortedSeq(S) == IF S = {} THEN << >>
                ELSE <<Min(S)>> \o SortedSeq(S \ {Min(S)})

Range(s) == {s[i] : i \in DOMAIN s}

-----------------------------------------------------------------------------
(* Objects *)

AddressOwner(a) == [tag |-> "AddressOwner", v |-> a]
ObjectOwner(i) == [tag |-> "ObjectOwner", v |-> i]
Shared(initial_shared_version) == [tag |-> "Shared", v |-> initial_shared_version]
Immutable == [tag |-> "Immutable", v |-> 0]

\* Data::Move(MoveObject) of the gas coin type, of another type, and Data::Package.
\* The version of an object is a field of its data (lines 218-219).
CoinData(balance, version) == [type |-> "coin", value |-> balance, version |-> version]
MoveData(contents, version) == [type |-> "move", value |-> contents, version |-> version]
PackageData(modules, version) == [type |-> "package", value |-> modules, version |-> version]

Object(id, data, owner, storage_rebate, previous_transaction) ==
    [id |-> id, data |-> data, owner |-> owner,
     storage_rebate |-> storage_rebate,
     previous_transaction |-> previous_transaction]

\* Object::version
object_version(o) == o.data.version

is_package(o) == o.data.type = "package"
is_immutable(o) == o.owner.tag = "Immutable"
is_gas_coin(o) == o.data.type = "coin"

\* The metered size of an object: a header plus its contents.
object_size_for_gas_metering(o) ==
    CASE o.data.type = "coin" -> 2
      [] o.data.type = "move" -> 1 + o.data.value
      [] OTHER -> 3

Ctx(sender, package_id, transaction_module) ==
    [sender |-> sender, package_id |-> package_id,
     transaction_module |-> transaction_module]

CtxGas(sender) == Ctx(sender, FrameworkId, "gas")
CtxUnusedInput(sender) == Ctx(sender, FrameworkId, "unused_input_object")
UserCtx == Ctx(Sender, UserPackageId, "m")

WriteKinds == {"Create", "Mutate", "Unwrap"}
DeleteKinds == {"Normal", "Wrap", "UnwrapThenDelete"}

-----------------------------------------------------------------------------
(* The store record the pure operations work on *)

\* bad collects the debug assertions that failed, wrote the objects passed to
\* write_object since the last clearing.
Store(w, d, e, bad) ==
    [written |-> w, deleted |-> d, events |-> e, bad |-> bad, wrote |-> EmptyMap]

ThisStore == [Store(written, deleted, events, {}) EXCEPT !.wrote = last_write]

FreshStore == Store(EmptyMap, EmptyMap, << >>, {})

\* A read_object that looks into the input snapshot first.
read_object_InputFirst(s, id) ==
    IF id \in DOMAIN input_objects THEN input_objects[id]
    ELSE IF id \in DOMAIN s.written THEN s.written[id].obj
    ELSE NoObject

\* TemporaryStore::read_object
read_object(s, id) ==
    IF id \in DOMAIN s.written THEN s.written[id].obj
    ELSE IF id \in DOMAIN input_objects THEN input_objects[id]
    ELSE NoObject

read_object_bad(s, id) ==
    IF id \in DOMAIN s.deleted THEN {"read_after_delete"} ELSE {}

\* A write_object that forgets the digest of the running transaction.
write_object_KeepDigest(s, ctx, object, kind) ==
    [s EXCEPT !.written = Put(@, object.id, [ctx |-> ctx, obj |-> object, kind |-> kind]),
              !.wrote = Put(@, object.id, object)]

\* TemporaryStore::write_object
write_object(s, ctx, object, kind) ==
    [s EXCEPT
       !.bad = @ \cup (IF object.id \in DOMAIN s.deleted
                       THEN {"write_after_delete"} ELSE {})
                 \cup (IF kind = "Create" /\ ~is_immutable(object)
                          /\ object_version(object) # SequenceNumberMIN
                       THEN {"created_with_version"} ELSE {}),
       !.written = Put(@, object.id,
                       [ctx |-> ctx,
                        obj |-> [object EXCEPT !.previous_transaction = TxDigest],
                        kind |-> kind]),
       !.wrote = Put(@, object.id, object)]

\* A delete_object that also leaves the deleted input in written, as a tombstone.
delete_object_Tombstone(s, ctx, id, version, kind) ==
    [s EXCEPT
       !.bad = @ \cup (IF id \in DOMAIN s.written
                       THEN {"delete_after_write"} ELSE {}),
       !.deleted = Put(@, id, [ctx |-> ctx, version |-> version, kind |-> kind]),
       !.written = IF id \in DOMAIN input_objects
                   THEN Put(@, id, [ctx |-> ctx, obj |-> input_objects[id],
                                    kind |-> "Mutate"])
                   ELSE @]

\* TemporaryStore::delete_object
delete_object(s, ctx, id, version, kind) ==
    [s EXCEPT
       !.bad = @ \cup (IF id \in DOMAIN s.written
                       THEN {"delete_after_write"} ELSE {}),
       !.deleted = Put(@, id, [ctx |-> ctx, version |-> version, kind |-> kind])]

\* A drop_writes that forgets the event log.
drop_writes_KeepEvents(s) ==
    [s EXCEPT !.written = EmptyMap, !.deleted = EmptyMap, !.wrote = EmptyMap]

\* TemporaryStore::drop_writes
drop_writes(s) ==
    [s EXCEPT !.written = EmptyMap, !.deleted = EmptyMap, !.events = << >>,
              !.wrote = EmptyMap]

\* A Storage::reset that leaves the deletions in place.
storage_reset_KeepDeleted(s) ==
    [s EXCEPT !.written = EmptyMap, !.events = << >>, !.wrote = EmptyMap]

\* Storage::reset, the adapter's trait method (lines 998-1002)
storage_reset(s) ==
    [s EXCEPT !.written = EmptyMap, !.deleted = EmptyMap, !.events = << >>,
              !.wrote = EmptyMap]

\* TemporaryStore::log_event
log_event(s, event) == [s EXCEPT !.events = Append(@, event)]

-----------------------------------------------------------------------------
(* Errors *)

Err(kind, pass) == [kind |-> kind, pass |-> pass]
InvariantViolation == Err("InvariantViolation", 0)
CoinBalanceOverflow == Err("CoinBalanceOverflow", 0)
ExecutionAborted == Err("MoveAbort", 0)
\* The meter's out-of-gas error, told apart by the pass that raised it.
InsufficientGas(pass, call) == Err("InsufficientGas", pass)

Ok == [ok |-> TRUE, err |-> NoErr]
Failed(e) == [ok |-> FALSE, err |-> e]

-----------------------------------------------------------------------------
(* Gas smashing *)

\* What Vec::swap_remove(0) leaves behind: the last element takes the place of the first.
swap_remove_rest(g) ==
    IF Len(g) <= 1 THEN << >>
    ELSE <<g[Len(g)]>> \o SubSeq(g, 2, Len(g) - 1)

\* Every gas ref is a Move object of the gas coin type (the collect() over the refs).
smash_gas_parse_ok(g) == \A i \in DOMAIN g : is_gas_coin(input_objects[g[i]])

RECURSIVE smash_gas_merge(_, _, _, _)
\* The loop over the other coins: add the balance, then delete the coin.
smash_gas_merge(s, balance, others, sender) ==
    IF others = << >> THEN [store |-> s, balance |-> balance, err |-> NoErr]
    ELSE LET other == input_objects[Head(others)]
         IN IF balance + other.data.value > U64Max
            THEN [store |-> s, balance |-> balance, err |-> CoinBalanceOverflow]
            ELSE smash_gas_merge(
                     delete_object(s, CtxGas(sender), other.id, object_version(other), "Normal"),
                     balance + other.data.value, Tail(others), sender)

\* The end of smash_gas: the merged balance goes into the primary coin, which
\* is written; an overflow is returned with what the loop has done so far.
smash_gas_write(m, primary, sender) ==
    IF m.err # NoErr
    THEN [store |-> m.store, err |-> m.err, ret |-> ZeroId]
    ELSE [store |-> write_object(m.store, CtxGas(sender),
                                 [primary EXCEPT !.data.value = m.balance], "Mutate"),
          err |-> NoErr, ret |-> primary.id]

\* A smash_gas that forgets the balance of the last coin of the list.
smash_gas_DropLast(s, sender, g) ==
    IF Len(g) <= 1 THEN [store |-> s, err |-> NoErr, ret |-> g[1]]
    ELSE smash_gas_write(
             smash_gas_merge(s, input_objects[g[1]].data.value
                                  - input_objects[g[Len(g)]].data.value,
                             swap_remove_rest(g), sender),
             input_objects[g[1]], sender)

\* TemporaryStore::smash_gas.  Every id of g is an input (the unwrap at line 805).
smash_gas(s, sender, g) ==
    IF Len(g) <= 1 THEN [store |-> s, err |-> NoErr, ret |-> g[1]]
    ELSE IF ~smash_gas_parse_ok(g)
    THEN [store |-> s, err |-> InvariantViolation, ret |-> ZeroId]
    ELSE smash_gas_write(
             smash_gas_merge(s, input_objects[g[1]].data.value,
                             swap_remove_rest(g), sender),
             input_objects[g[1]], sender)

-----------------------------------------------------------------------------
(* The gas meter (SuiGasStatus), an external collaborator.  Whether a charge  *)
(* runs out of gas is the meter's business: a pass is given the number f of   *)
(* the charge that fails in it (0: none).                                     *)

StoragePrice == 1           \* storage cost of one metered byte
ComputationPerByte == 1     \* computation cost of one mutated byte
StorageRebateRate == 9900   \* basis points of the rebate that go to the sender
InitialComputationCost == 3 \* computation charged by the execution itself

NewMeter == [computation_cost |-> InitialComputationCost,
             storage_cost |-> 0, storage_rebate |-> 0]

\* SuiGasStatus::charge_storage_mutation, when it does not run out of gas
charge_storage_mutation(m, new_size, storage_rebate) ==
    [meter |-> [m EXCEPT !.storage_cost = @ + new_size * StoragePrice,
                         !.storage_rebate = @ + storage_rebate],
     new_rebate |-> new_size * StoragePrice]

\* SuiGasStatus::charge_computation_gas_for_storage_mutation, when it succeeds
charge_computation_gas_for_storage_mutation(m, bytes) ==
    [m EXCEPT !.computation_cost = @ + bytes * ComputationPerByte]

\* SuiGasStatus::reset_storage_cost_and_rebate
reset_storage_cost_and_rebate(m) ==
    [m EXCEPT !.storage_cost = 0, !.storage_rebate = 0]

\* SuiGasStatus::summary
summary(m) == [computation_cost |-> m.computation_cost,
               storage_cost |-> m.storage_cost,
               storage_rebate |-> m.storage_rebate]

gas_used(sum) == sum.computation_cost + sum.storage_cost
sender_rebate(sum, rate) == (sum.storage_rebate * rate + 5000) \div 10000
net_gas_usage(sum) == gas_used(sum) - sum.storage_rebate

\* gas::deduct_gas: the new balance of the gas coin
deduct_gas(gas_object, deduct_amount, rebate_amount) ==
    [gas_object EXCEPT
       !.data.value = @ + rebate_amount - deduct_amount]

-----------------------------------------------------------------------------
(* Storage gas accounting *)

MutableInputIds == [i \in DOMAIN mutable_input_refs |-> mutable_input_refs[i][1]]

RECURSIVE write_all(_, _)
\* write_object for each (ctx, object, kind) of a list, in order
write_all(s, list) ==
    IF list = << >> THEN s
    ELSE write_all(write_object(s, Head(list).ctx, Head(list).obj, Head(list).kind),
                   Tail(list))

\* The mutable inputs that are neither written nor deleted, in ref order.
unmutated_inputs(s) ==
    SelectSeq(MutableInputIds,
              LAMBDA id : id \notin DOMAIN s.written /\ id \notin DOMAIN s.deleted)

\* to_be_updated as the writes made from it (lines 487-494)
forced_mutations(ids, sender) ==
    [i \in DOMAIN ids |->
        [ctx |-> CtxUnusedInput(sender), obj |-> input_objects[ids[i]],
         kind |-> "Mutate"]]

\* An ensure_active_inputs_mutated that skips the inputs when something is deleted.
ensure_active_inputs_mutated_Lazy(s, sender) ==
    IF DOMAIN s.deleted # {} THEN s
    ELSE write_all(s, forced_mutations(unmutated_inputs(s), sender))

\* TemporaryStore::ensure_active_inputs_mutated
ensure_active_inputs_mutated(s, sender) ==
    write_all(s, forced_mutations(unmutated_inputs(s), sender))

RECURSIVE charge_written(_, _, _, _)
\* The loop over &mut self.written (lines 520-535); r.written is updated in place.
charge_written(r, ids, f, pass) ==
    IF ids = << >> \/ r.err # NoErr THEN r
    ELSE LET id == Head(ids)
             e == r.written[id]
             old_object_size == IF id \in DOMAIN input_objects
                                THEN object_size_for_gas_metering(input_objects[id])
                                ELSE 0
             storage_rebate == IF id \in DOMAIN input_objects
                               THEN input_objects[id].storage_rebate ELSE 0
             new_object_size == object_size_for_gas_metering(e.obj)
             call == r.call + 1
         IN IF f = call
            THEN [r EXCEPT !.err = InsufficientGas(pass, call), !.call = call]
            ELSE LET c == charge_storage_mutation(r.meter, new_object_size, storage_rebate)
                     object == [e.obj EXCEPT !.storage_rebate = c.new_rebate]
                 IN charge_written(
                        [written |-> [r.written EXCEPT ![id].obj = object],
                         meter |-> c.meter,
                         call |-> call,
                         bytes |-> r.bytes + old_object_size + new_object_size,
                         objects_to_update |->
                             IF is_immutable(object) THEN r.objects_to_update
                             ELSE Append(r.objects_to_update,
                                         [ctx |-> e.ctx, obj |-> object, kind |-> e.kind]),
                         err |-> NoErr],
                        Tail(ids), f, pass)

RECURSIVE charge_deleted(_, _, _, _)
\* The loop over self.deleted.keys() (lines 537-546): only inputs are charged.
charge_deleted(r, ids, f, pass) ==
    IF ids = << >> \/ r.err # NoErr THEN r
    ELSE IF Head(ids) \notin DOMAIN input_objects
    THEN charge_deleted(r, Tail(ids), f, pass)
    ELSE LET old_object == input_objects[Head(ids)]
             call == r.call + 1
         IN IF f = call
            THEN [r EXCEPT !.err = InsufficientGas(pass, call), !.call = call]
            ELSE charge_deleted(
                     [r EXCEPT
                        !.meter = charge_storage_mutation(@, 0, old_object.storage_rebate).meter,
                        !.call = call,
                        !.bytes = @ + object_size_for_gas_metering(old_object)],
                     Tail(ids), f, pass)

\* Lines 510-516: the gas object goes into self.written if it is not there yet,
\* as it is read, without write_object.
insert_gas_object(s, sender, gas_object_id) ==
    [s EXCEPT
       !.bad = @ \cup read_object_bad(s, gas_object_id),
       !.written = IF gas_object_id \in DOMAIN @ THEN @
                   ELSE Put(@, gas_object_id,
                            [ctx |-> CtxGas(sender),
                             obj |-> read_object(s, gas_object_id),
                             kind |-> "Mutate"])]

\* Lines 548-553: the charged objects are written back only if no charge failed;
\* d.written is self.written as the loop over &mut self.written left it.
write_charged_objects(s, d) ==
    [store |-> IF d.err = NoErr
               THEN write_all([s EXCEPT !.written = d.written], d.objects_to_update)
               ELSE [s EXCEPT !.written = d.written],
     meter |-> d.meter, err |-> d.err, bytes |-> d.bytes, call |-> d.call]

\* Charging loops that give no rebate for what is deleted.
charge_loops_SkipDeleted(s, meter, f, pass) ==
    charge_written([written |-> s.written, meter |-> meter, call |-> 0,
                    bytes |-> 0, objects_to_update |-> << >>, err |-> NoErr],
                   SortedSeq(DOMAIN s.written), f, pass)

\* Lines 518-546: the two charging loops
charge_loops(s, meter, f, pass) ==
    charge_deleted(
        charge_written([written |-> s.written, meter |-> meter, call |-> 0,
                        bytes |-> 0, objects_to_update |-> << >>, err |-> NoErr],
                       SortedSeq(DOMAIN s.written), f, pass),
        SortedSeq(DOMAIN s.deleted), f, pass)

\* Lines 517-553, on the store with the gas object and the unused inputs in it
charge_and_write(s, meter, f, pass) ==
    write_charged_objects(s, charge_loops(s, meter, f, pass))

\* TemporaryStore::charge_gas_for_storage_changes; f is the charge that runs out of gas.
\* The result: the store, the meter, the error (or NoErr) and the byte total.
charge_gas_for_storage_changes(s, meter, sender, gas_object_id, f, pass) ==
    charge_and_write(
        ensure_active_inputs_mutated(insert_gas_object(s, sender, gas_object_id), sender),
        meter, f, pass)

\* .and_then(|bytes| gas_status.charge_computation_gas_for_storage_mutation(bytes))
and_then_charge_computation(a, f, pass) ==
    IF a.err # NoErr THEN a
    ELSE IF f = a.call + 1
    THEN [a EXCEPT !.err = InsufficientGas(pass, a.call + 1), !.call = @ + 1]
    ELSE [a EXCEPT !.meter = charge_computation_gas_for_storage_mutation(@, a.bytes),
                   !.call = @ + 1]

\* One charging pass of charge_gas (lines 744-748, 754-759)
charge_pass(s, meter, sender, gas_object_id, f, pass) ==
    and_then_charge_computation(
        charge_gas_for_storage_changes(s, meter, sender, gas_object_id, f, pass),
        f, pass)

\* A reset that drops the writes and does not smash the gas again.
reset_NoSmash(s, meter, sender, g) ==
    [store |-> drop_writes(s), meter |-> reset_storage_cost_and_rebate(meter),
     panic |-> FALSE]

\* The end of reset: sm is what smash_gas returned.
reset_result(sm, meter) ==
    [store |-> sm.store, meter |-> reset_storage_cost_and_rebate(meter),
     panic |-> sm.err # NoErr]

\* TemporaryStore::reset; panics when smash_gas fails (the expect at line 883).
reset(s, meter, sender, g) ==
    reset_result(smash_gas(drop_writes(s), sender, g), meter)

-----------------------------------------------------------------------------
(* Gas charging *)

\* A gas charge that is always written under the gas context.
gas_write_ctx_AlwaysGas(s, sender, gas_object_id) == CtxGas(sender)

\* Lines 786-791: the context of the gas charge is the one the gas object is
\* written with already, if it is written.
gas_write_ctx(s, sender, gas_object_id) ==
    IF gas_object_id \in DOMAIN s.written
    THEN s.written[gas_object_id].ctx
    ELSE CtxGas(sender)

\* Lines 774-793 of charge_gas: the gas object is read again, the charges of
\* cost_summary are deducted from it, it is written under the context it had, and
\* gas_charged is set.  last is the last charging pass that ran.
charge_gas_record(last, sender, gas_object_id, c, cost_summary) ==
    [store |-> write_object(
                   [last.store EXCEPT
                      !.bad = @ \cup read_object_bad(last.store, gas_object_id)],
                   gas_write_ctx(last.store, sender, gas_object_id),
                   deduct_gas(read_object(last.store, gas_object_id),
                              gas_used(cost_summary),
                              sender_rebate(cost_summary, StorageRebateRate)),
                   "Mutate"),
     meter |-> last.meter,
     execution_result |-> c.execution_result,
     gas_charged |-> [sender |-> sender, gas_object_id |-> gas_object_id,
                      summary |-> cost_summary],
     panic |-> \/ c.panic
               \/ read_object(last.store, gas_object_id).data.value
                      < gas_used(cost_summary),
     err1 |-> c.err1,
     err2 |-> IF c.err1 # NoErr THEN last.err ELSE NoErr,
     resets |-> c.resets,
     calls |-> last.call]

\* A charge_gas that takes the summary without the storage charges of the passes.
charge_gas_deduct_StaleSummary(last, sender, gas_object_id, c) ==
    charge_gas_record(last, sender, gas_object_id, c,
                      summary(reset_storage_cost_and_rebate(last.meter)))

\* Phase C of charge_gas (lines 773-793): let cost_summary = gas_status.summary()
charge_gas_deduct(last, sender, gas_object_id, c) ==
    charge_gas_record(last, sender, gas_object_id, c, summary(last.meter))

\* A recovery that hands the error of the retry to the caller.
charge_gas_retry_RetryError(p2, p1, r0, r1, sender, gas_object_id, exec_in) ==
    charge_gas_deduct(p2, sender, gas_object_id,
        [execution_result |-> IF exec_in.ok /\ p2.err # NoErr THEN Failed(p2.err)
                              ELSE IF exec_in.ok THEN Failed(p1.err) ELSE exec_in,
         panic |-> r0.panic \/ r1.panic,
         err1 |-> p1.err,
         resets |-> Append(r0.resets, r1.store)])

\* Lines 750-771, after the reset r1 and the retry p2: the execution result is
\* overwritten with the error of the first pass p1 if it was Ok.
charge_gas_retry(p2, p1, r0, r1, sender, gas_object_id, exec_in) ==
    charge_gas_deduct(p2, sender, gas_object_id,
        [execution_result |-> IF exec_in.ok THEN Failed(p1.err) ELSE exec_in,
         panic |-> r0.panic \/ r1.panic,
         err1 |-> p1.err,
         resets |-> Append(r0.resets, r1.store)])

\* Lines 750-759: the reset after a failed first pass, and the second pass
charge_gas_reset(r1, p1, r0, sender, gas_object_id, exec_in, f2) ==
    charge_gas_retry(charge_pass(r1.store, r1.meter, sender, gas_object_id, f2, 2),
                     p1, r0, r1, sender, gas_object_id, exec_in)

\* Lines 744-772: what follows the first pass p1
charge_gas_recover(p1, r0, sender, gas_object_id, exec_in, g, f2) ==
    IF p1.err = NoErr
    THEN charge_gas_deduct(p1, sender, gas_object_id,
             [execution_result |-> exec_in, panic |-> r0.panic, err1 |-> NoErr,
              resets |-> r0.resets])
    ELSE charge_gas_reset(reset(p1.store, p1.meter, sender, g), p1, r0,
                          sender, gas_object_id, exec_in, f2)

\* Lines 744-748: the first pass, on the store r0 that phase A left
charge_gas_charge(r0, sender, gas_object_id, exec_in, g, f1, f2) ==
    charge_gas_recover(charge_pass(r0.store, r0.meter, sender, gas_object_id, f1, 1),
                       r0, sender, gas_object_id, exec_in, g, f2)

\* Lines 739-742: an aborted execution is reset before anything is charged.
reset_if_aborted(r, exec_in) ==
    [store |-> r.store, meter |-> r.meter, panic |-> r.panic,
     resets |-> IF exec_in.ok THEN << >> ELSE <<r.store>>]

\* A charge_gas that keeps the changes of an aborted execution.
charge_gas_NoRollback(s, meter, sender, gas_object_id, exec_in, g, f1, f2) ==
    charge_gas_charge(
        reset_if_aborted([store |-> s, meter |-> meter, panic |-> FALSE], exec_in),
        sender, gas_object_id, exec_in, g, f1, f2)

\* TemporaryStore::charge_gas.  f1 and f2 are the charges that run out of gas in the
\* first pass and in the retry (0: none).  resets lists the store after each reset.
charge_gas(s, meter, sender, gas_object_id, exec_in, g, f1, f2) ==
    charge_gas_charge(
        reset_if_aborted(IF exec_in.ok THEN [store |-> s, meter |-> meter, panic |-> FALSE]
                         ELSE reset(s, meter, sender, g),
                         exec_in),
        sender, gas_object_id, exec_in, g, f1, f2)

-----------------------------------------------------------------------------
(* What the execution may pass to the store *)

\* Objects and kinds the adapter writes: inputs are mutated, the ids 5 and 6 are
\* created or unwrapped, id 5 may be a dynamic field.
UserCoinIds == {1, 2}        \* the coins the execution itself touches

UserWrites ==
    UNION {
      {[obj |-> [input_objects[c] EXCEPT !.data.value = @ - 20],
        kind |-> "Mutate"],
       [obj |-> [input_objects[c] EXCEPT !.owner = AddressOwner(Recipient)],
        kind |-> "Mutate"],
       [obj |-> [input_objects[c] EXCEPT !.data.value = @ + 5,
                                         !.data.version = StrangeVersion],
        kind |-> "Mutate"]} : c \in UserCoinIds }
    \cup
    {[obj |-> [input_objects[4] EXCEPT !.data.value = 1], kind |-> "Mutate"],
     [obj |-> [input_objects[4] EXCEPT !.owner = AddressOwner(Recipient)], kind |-> "Mutate"],
     [obj |-> Object(5, MoveData(1, SequenceNumberMIN), AddressOwner(Sender), 0, OldDigest),
      kind |-> "Create"],
     [obj |-> Object(5, MoveData(1, SequenceNumberMIN), Shared(0), 0, OldDigest),
      kind |-> "Create"],
     [obj |-> Object(5, PackageData(1, 1), Immutable, 0, OldDigest), kind |-> "Create"],
     [obj |-> Object(5, CoinData(10, SequenceNumberMIN), AddressOwner(Recipient), 0, OldDigest),
      kind |-> "Create"],
     [obj |-> Object(5, MoveData(1, StrangeVersion), AddressOwner(Sender), 0, OldDigest),
      kind |-> "Unwrap"],
     [obj |-> Object(5, MoveData(1, 2), ObjectOwner(4), 0, OldDigest), kind |-> "Mutate"],
     [obj |-> Object(6, MoveData(1, SequenceNumberMIN), AddressOwner(Sender), 0, OldDigest),
      kind |-> "Create"],
     [obj |-> Object(6, MoveData(1, 2), AddressOwner(Sender), 0, OldDigest),
      kind |-> "Unwrap"],
     [obj |-> [input_objects[4] EXCEPT !.owner = Shared(1)], kind |-> "Mutate"],
     [obj |-> Object(6, MoveData(1, 2), Shared(2), 0, OldDigest), kind |-> "Unwrap"]}

UserDeletes ==
    {[id |-> i, version |-> object_version(input_objects[i]), kind |-> "Normal"] :
        i \in UserCoinIds \cup {4}}
    \cup
    {[id |-> 4, version |-> object_version(input_objects[4]), kind |-> "Wrap"],
     [id |-> 5, version |-> StrangeVersion, kind |-> "UnwrapThenDelete"],
     [id |-> 5, version |-> 2, kind |-> "Normal"],
     [id |-> 1, version |-> object_version(input_objects[1]), kind |-> "Wrap"],
     [id |-> 6, version |-> 2, kind |-> "UnwrapThenDelete"]}

UserEvents == {[type |-> "MoveEvent", n |-> 1], [type |-> "MoveEvent", n |-> 2]}

\* ObjectChange::Write / ObjectChange::Delete for one key of the change map
UserChanges(id) ==
    {[write |-> TRUE, c |-> w] : w \in {x \in UserWrites : x.obj.id = id}}
    \cup {[write |-> FALSE, c |-> d] : d \in {x \in UserDeletes : x.id = id}}

RECURSIVE apply_object_changes(_, _, _)
\* TemporaryStore::apply_object_changes: the changes in key order
apply_object_changes(s, changes, keys) ==
    IF keys = << >> THEN s
    ELSE LET ch == changes[Head(keys)]
         IN apply_object_changes(
                IF ch.write THEN write_object(s, UserCtx, ch.c.obj, ch.c.kind)
                ELSE delete_object(s, UserCtx, Head(keys), ch.c.version, ch.c.kind),
                changes, Tail(keys))

Disciplined(bad) == bad \cap {"write_after_delete", "delete_after_write"} = {}

-----------------------------------------------------------------------------
(* Events *)

EventBalanceChange(ctx, change_type, owner, coin_id, version, amount) ==
    [type |-> "BalanceChange", ctx |-> ctx, change_type |-> change_type,
     owner |-> owner, object_id |-> coin_id, version |-> version, amount |-> amount]

EventTransferObject(ctx, recipient, object_id, version) ==
    [type |-> "TransferObject", ctx |-> ctx, recipient |-> recipient,
     object_id |-> object_id, version |-> version]

EventMutateObject(ctx, object_id, version) ==
    [type |-> "MutateObject", ctx |-> ctx, object_id |-> object_id, version |-> version]

EventDeleteObject(ctx, object_id, version) ==
    [type |-> "DeleteObject", ctx |-> ctx, object_id |-> object_id, version |-> version]

EventNewObject(ctx, recipient, object_id, version) ==
    [type |-> "NewObject", ctx |-> ctx, recipient |-> recipient,
     object_id |-> object_id, version |-> version]

EventPublish(sender, package_id, version) ==
    [type |-> "Publish", sender |-> sender, object_id |-> package_id,
     version |-> version]

\* Coin::extract_balance_if_coin
is_coin(o) == o # NoObject /\ o.data.type = "coin"

\* Coin-mutate events that compare with the input balance of the gas coin as it is.
create_coin_mutate_events_NoGasAdjust(ctx, gas_id, coin, old_coin, gas_charged_amount) ==
    LET balance == coin.data.value
        old_balance == old_coin.data.value
    IN IF old_coin.owner = coin.owner
       THEN IF old_balance > balance
            THEN <<EventBalanceChange(ctx, "Pay", old_coin.owner, old_coin.id,
                                 object_version(old_coin), balance - old_balance)>>
            ELSE IF old_balance < balance
            THEN <<EventBalanceChange(ctx, "Receive", coin.owner, coin.id,
                                 object_version(coin), balance - old_balance)>>
            ELSE << >>
       ELSE <<EventBalanceChange(ctx, "Pay", old_coin.owner, coin.id,
                            object_version(old_coin), 0 - old_balance),
              EventBalanceChange(ctx, "Receive", coin.owner, coin.id,
                            object_version(coin), balance)>>

\* TemporaryStore::create_coin_mutate_events
create_coin_mutate_events(ctx, gas_id, coin, old_coin, gas_charged_amount) ==
    LET balance == coin.data.value
        old_balance == IF coin.id = gas_id
                       THEN old_coin.data.value - gas_charged_amount
                       ELSE old_coin.data.value
    IN IF old_coin.owner = coin.owner
       THEN IF old_balance > balance
            THEN <<EventBalanceChange(ctx, "Pay", old_coin.owner, old_coin.id,
                                 object_version(old_coin), balance - old_balance)>>
            ELSE IF old_balance < balance
            THEN <<EventBalanceChange(ctx, "Receive", coin.owner, coin.id,
                                 object_version(coin), balance - old_balance)>>
            ELSE << >>
       ELSE <<EventBalanceChange(ctx, "Pay", old_coin.owner, coin.id,
                            object_version(old_coin), 0 - old_balance),
              EventBalanceChange(ctx, "Receive", coin.owner, coin.id,
                            object_version(coin), balance)>>

\* A Create arm that announces every created object as a new object.
created_object_events_AlwaysNew(ctx, id, obj) ==
    <<EventNewObject(ctx, obj.owner, id, object_version(obj))>>

\* The arm (WriteKind::Create, Ok(None), _) of create_written_events (lines 376-394)
created_object_events(ctx, id, obj) ==
    IF is_package(obj)
    THEN <<EventPublish(ctx.sender, id, object_version(obj))>>
    ELSE <<EventNewObject(ctx, obj.owner, id, object_version(obj))>>

\* TemporaryStore::create_written_events; old_obj is NoObject for None,
\* gas_id is ZeroId - 1 for None.
create_written_events(ctx, kind, id, obj, old_obj, gas_id, gas_charged_amount) ==
    IF kind = "Mutate" /\ is_coin(obj) /\ old_obj # NoObject
    THEN IF is_coin(old_obj)
         THEN create_coin_mutate_events(ctx, gas_id, obj, old_obj, gas_charged_amount)
         ELSE << >>
    ELSE IF is_coin(obj)
    THEN IF obj.owner.tag = "AddressOwner"
         THEN <<EventBalanceChange(ctx, "Receive", obj.owner, obj.id, object_version(obj),
                              obj.data.value)>>
         ELSE << >>
    ELSE IF kind \in {"Mutate", "Unwrap"}
    THEN IF is_package(obj)
         THEN <<EventPublish(ctx.sender, id, object_version(obj))>>
         ELSE (IF old_obj = NoObject \/ old_obj.owner # obj.owner
               THEN <<EventTransferObject(ctx, obj.owner, obj.id, object_version(obj))>>
               ELSE << >>)
              \o
              (IF old_obj # NoObject /\ old_obj.data # obj.data
               THEN <<EventMutateObject(ctx, obj.id, object_version(obj))>>
               ELSE << >>)
    ELSE created_object_events(ctx, id, obj)

-----------------------------------------------------------------------------
(* Finalisation *)

\* SequenceNumber::increment_to / MoveObject::increment_version_to
increment_to(version, next) == next

\* Object::compute_object_reference: (id, version, digest); the digest stands
\* for the hash of the whole object.
compute_object_reference(o) == <<o.id, object_version(o), o>>

\* A stamping that bumps the version the object was written with by one.
stamp_written_Bump(obj, kind) ==
    IF is_package(obj) THEN obj ELSE [obj EXCEPT !.data.version = @ + 1]

\* A stamping that gives every shared object the lamport timestamp as its
\* initial_shared_version, whatever its WriteKind.
stamp_written_ShareAll(obj, kind) ==
    LET o1 == IF is_package(obj) THEN obj
              ELSE [obj EXCEPT !.data.version = increment_to(@, lamport_timestamp)]
    IN IF o1.owner.tag = "Shared"
       THEN [o1 EXCEPT !.owner = Shared(lamport_timestamp)]
       ELSE o1

\* The object into_inner puts in the output written map (lines 215-237).
stamp_written(obj, kind) ==
    LET o1 == IF is_package(obj) THEN obj
              ELSE [obj EXCEPT !.data.version = increment_to(@, lamport_timestamp)]
    IN IF o1.owner.tag = "Shared" /\ kind = "Create"
       THEN [o1 EXCEPT !.owner = Shared(lamport_timestamp)]
       ELSE o1

\* The assert_eq! at line 230: a shared object is created with a blank version.
shared_creation_ok(s) ==
    \A id \in DOMAIN s.written :
        s.written[id].obj.owner.tag = "Shared" /\ s.written[id].kind = "Create"
            => s.written[id].obj.owner.v = SequenceNumberMIN

\* TemporaryStore::check_invariants (debug builds only)
check_invariants(s) ==
    /\ DOMAIN s.written \cap DOMAIN s.deleted = {}
    /\ \A i \in DOMAIN mutable_input_refs :
           mutable_input_refs[i][1] \in DOMAIN s.written \cup DOMAIN s.deleted
    /\ \A id \in DOMAIN s.written : s.written[id].obj.previous_transaction = TxDigest

\* A gas event at the version the gas coin gets, not the one it had.
gas_events_NewVersion(gc) ==
    IF gc = NoGasCharged THEN << >>
    ELSE <<EventBalanceChange(CtxGas(gc.sender), "Gas",
                         input_objects[gc.gas_object_id].owner,
                         gc.gas_object_id,
                         lamport_timestamp,
                         0 - net_gas_usage(gc.summary))>>

\* The gas event of into_inner (lines 195-213)
gas_events(gc) ==
    IF gc = NoGasCharged THEN << >>
    ELSE <<EventBalanceChange(CtxGas(gc.sender), "Gas",
                         input_objects[gc.gas_object_id].owner,
                         gc.gas_object_id,
                         object_version(input_objects[gc.gas_object_id]),
                         0 - net_gas_usage(gc.summary))>>

RECURSIVE written_events(_, _, _)
\* The events of the loop over self.written, in key order
written_events(s, gc, ids) ==
    IF ids = << >> THEN << >>
    ELSE LET id == Head(ids)
             e == s.written[id]
         IN create_written_events(
                e.ctx, e.kind, id, stamp_written(e.obj, e.kind),
                IF id \in DOMAIN input_objects THEN input_objects[id] ELSE NoObject,
                IF gc = NoGasCharged THEN ZeroId - 1 ELSE gc.gas_object_id,
                IF gc = NoGasCharged THEN 0 ELSE net_gas_usage(gc.summary))
            \o written_events(s, gc, Tail(ids))

\* A delete event for every entry of self.deleted, coin or not.
deleted_event_AlwaysDelete(s, id) ==
    EventDeleteObject(s.deleted[id].ctx, id,
                      increment_to(s.deleted[id].version, lamport_timestamp))

\* The event of one entry of self.deleted (lines 252-280)
deleted_event(s, id) ==
    IF id \in DOMAIN input_objects /\ is_coin(input_objects[id])
    THEN EventBalanceChange(s.deleted[id].ctx, "Pay", input_objects[id].owner, id,
                       object_version(input_objects[id]), 0 - input_objects[id].data.value)
    ELSE EventDeleteObject(s.deleted[id].ctx, id,
                      increment_to(s.deleted[id].version, lamport_timestamp))

\* A stream that starts with the events the execution logged.
event_stream_UserFirst(gas_ev, written_ev, deleted_ev, user_ev) ==
    user_ev \o gas_ev \o written_ev \o deleted_ev

\* The order in which into_inner fills events: the gas event (lines 195-213), the
\* events of the loop over written (243), of the loop over deleted (281), and
\* events.extend(self.events) (285).
event_stream(gas_ev, written_ev, deleted_ev, user_ev) ==
    gas_ev \o written_ev \o deleted_ev \o user_ev

\* The input objects with what the store has written laid over them.
returned_objects_Updated(s) ==
    [id \in DOMAIN input_objects |->
        IF id \in DOMAIN s.written THEN s.written[id].obj ELSE input_objects[id]]

\* objects: self.input_objects (line 288)
returned_objects(s) == input_objects

\* A deletion stamped with the version after the one it was recorded with.
stamp_deleted_Next(version) == version + 1

\* version.increment_to(self.lamport_timestamp) of the loop over deleted (line 249)
stamp_deleted(version) == increment_to(version, lamport_timestamp)

\* TemporaryStore::into_inner
into_inner(s, gc) ==
    [objects |-> returned_objects(s),
     mutable_inputs |-> mutable_input_refs,
     written |-> [id \in DOMAIN s.written |->
                     LET obj == stamp_written(s.written[id].obj, s.written[id].kind)
                     IN [ref |-> compute_object_reference(obj), obj |-> obj,
                         kind |-> s.written[id].kind]],
     deleted |-> [id \in DOMAIN s.deleted |->
                     [version |-> stamp_deleted(s.deleted[id].version),
                      kind |-> s.deleted[id].kind]],
     events |-> event_stream(
                    gas_events(gc),
                    written_events(s, gc, SortedSeq(DOMAIN s.written)),
                    [i \in 1..Cardinality(DOMAIN s.deleted) |->
                        deleted_event(s, SortedSeq(DOMAIN s.deleted)[i])],
                    s.events)]

-----------------------------------------------------------------------------
(* The effects of the transaction *)

OBJECT_DIGEST_DELETED == "OBJECT_DIGEST_DELETED"
OBJECT_DIGEST_WRAPPED == "OBJECT_DIGEST_WRAPPED"

\* The keys of a BTreeMap in the order its iterators visit them.
keys(m) == SortedSeq(DOMAIN m)

\* A list with a pair for every entry of written, whatever its kind.
modified_at_versions_AllWritten(s) ==
    [i \in DOMAIN keys(s.written) |->
        <<keys(s.written)[i], object_version(s.written[keys(s.written)[i]].obj)>>]
    \o [i \in DOMAIN keys(s.deleted) |->
           <<keys(s.deleted)[i], s.deleted[keys(s.deleted)[i]].version>>]

\* modified_at_versions (lines 566-577): the versions the Mutate entries of
\* self.written and all entries of self.deleted were updated from, pushed by the
\* two for_each loops, one after the other.
modified_at_versions(s) ==
    LET mutated_keys == SelectSeq(keys(s.written),
                                  LAMBDA id : s.written[id].kind = "Mutate")
    IN [i \in DOMAIN mutated_keys |->
           <<mutated_keys[i], object_version(s.written[mutated_keys[i]].obj)>>]
       \o [i \in DOMAIN keys(s.deleted) |->
              <<keys(s.deleted)[i], s.deleted[keys(s.deleted)[i]].version>>]

\* The entries of one kind, visited from the largest id down.
written_refs_Descending(w, kind) ==
    LET ks == SelectSeq(keys(w), LAMBDA id : w[id].kind = kind)
    IN [i \in DOMAIN ks |->
           <<w[ks[Len(ks) + 1 - i]].ref, w[ks[Len(ks) + 1 - i]].obj.owner>>]

\* The loop over inner.written.values() (lines 594-603): the (object_ref, owner)
\* pairs pushed for one WriteKind.
written_refs(w, kind) ==
    LET ks == SelectSeq(keys(w), LAMBDA id : w[id].kind = kind)
    IN [i \in DOMAIN ks |-> <<w[ks[i]].ref, w[ks[i]].obj.owner>>]

\* The loop over &inner.deleted (lines 605-622): the (id, version, digest) triples
\* pushed for one DeleteKind.
deleted_refs(d, kind, digest) ==
    LET ks == SelectSeq(keys(d), LAMBDA id : d[id].kind = kind)
    IN [i \in DOMAIN ks |-> <<ks[i], d[ks[i]].version, digest>>]

\* updated_gas_object_info (lines 586-592); gas_object_id is gas[0].0, and the
\* caller has checked that it is ZERO or a key of inner.written.
updated_gas_object_info(inn, gas_object_id) ==
    IF gas_object_id = ZeroId
    THEN <<<<ZeroId, SequenceNumberMIN, NoObject>>, AddressOwner(ZeroAddress)>>
    ELSE <<inn.written[gas_object_id].ref, inn.written[gas_object_id].obj.owner>>

\* TransactionEffects::new_from_execution, with the arguments lines 624-644 pass.
\* shared_object_refs, transaction_dependencies and epoch are the caller's and
\* are passed through.
new_from_execution(status, gas_cost_summary, mav, inn, gas_object_id) ==
    [status |-> status,
     gas_used |-> gas_cost_summary,
     modified_at_versions |-> mav,
     transaction_digest |-> TxDigest,
     created |-> written_refs(inn.written, "Create"),
     mutated |-> written_refs(inn.written, "Mutate"),
     unwrapped |-> written_refs(inn.written, "Unwrap"),
     deleted |-> deleted_refs(inn.deleted, "Normal", OBJECT_DIGEST_DELETED),
     unwrapped_then_deleted |->
         deleted_refs(inn.deleted, "UnwrapThenDelete", OBJECT_DIGEST_DELETED),
     wrapped |-> deleted_refs(inn.deleted, "Wrap", OBJECT_DIGEST_WRAPPED),
     gas_object |-> updated_gas_object_info(inn, gas_object_id),
     events_digest |-> IF inn.events = << >> THEN << >> ELSE <<inn.events>>]

\* TemporaryStore::to_effects: the pair (inner, effects)
to_effects(s, gc, status, gas_cost_summary, gas_object_id) ==
    [inner |-> into_inner(s, gc),
     effects |-> new_from_execution(status, gas_cost_summary, modified_at_versions(s),
                                    into_inner(s, gc), gas_object_id)]

-----------------------------------------------------------------------------
(* Conservation of SUI *)

\* TemporaryStore::dynamic_fields_touched
dynamic_fields_touched(s) ==
    {id \in DOMAIN s.written :
        s.written[id].kind = "Mutate" /\ id \notin DOMAIN input_objects}
    \cup
    {id \in DOMAIN s.deleted :
        s.deleted[id].kind = "Normal" /\ id \notin DOMAIN input_objects}

\* Coin::extract_balance_if_coin, 0 for an object that is no coin
coin_balance(o) == IF o.data.type = "coin" THEN o.data.value ELSE 0

\* Object::get_total_sui: the storage rebate and the balance the object holds
get_total_sui(o) == o.storage_rebate + coin_balance(o)

\* GasCostSummary::storage_fund_rebate_inflow: the rebate the sender does not get
storage_fund_rebate_inflow(sum, rate) == sum.storage_rebate - sender_rebate(sum, rate)

RECURSIVE fold_total_sui(_)
\* .fold(0, |acc, o| acc + o.get_total_sui()) over a list of objects
fold_total_sui(objs) ==
    IF objs = << >> THEN 0
    ELSE get_total_sui(Head(objs)) + fold_total_sui(Tail(objs))

\* input_sui of check_sui_conserved (lines 938-945)
input_sui == fold_total_sui([i \in DOMAIN MutableInputIds |->
                                input_objects[MutableInputIds[i]]])

\* output_sui of check_sui_conserved (lines 958-961)
output_sui(s) ==
    fold_total_sui([i \in 1..Cardinality(DOMAIN s.written) |->
                       s.written[SortedSeq(DOMAIN s.written)[i]].obj])

\* TemporaryStore::check_sui_conserved: TRUE when it returns, FALSE when the
\* assert_eq! at line 976 fails.  gc is Some: the unwrap at line 933.
check_sui_conserved(s, gc) ==
    \/ dynamic_fields_touched(s) # {}
    \/ input_sui = output_sui(s) + gc.summary.computation_cost
                       + storage_fund_rebate_inflow(gc.summary, StorageRebateRate)

\* The execution has neither minted nor burnt balance: the balances of the store
\* (what is written, and the inputs that are neither written nor deleted) add up
\* to the balances of the inputs.
execution_balanced(s) ==
    fold_total_sui([i \in DOMAIN MutableInputIds |->
                       [input_objects[MutableInputIds[i]] EXCEPT !.storage_rebate = 0]])
    = fold_total_sui([i \in 1..Cardinality(DOMAIN s.written) |->
                       [s.written[SortedSeq(DOMAIN s.written)[i]].obj
                           EXCEPT !.storage_rebate = 0]])
      + fold_total_sui([i \in DOMAIN unmutated_inputs(s) |->
                       [input_objects[unmutated_inputs(s)[i]]
                           EXCEPT !.storage_rebate = 0]])

-----------------------------------------------------------------------------
(* The transactions the model runs *)

\* Input balances of the coins 1, 2, 3: the second choice overflows when merged.
Balances == <<100, 50, 25>>
BigBalances == <<200, 100, 40>>
InputVersions == <<3, 1, 2, 2>>
InputRebates == <<5, 1, 4, 3>>

\* The transactions: input balances and gas payment.  <<1, 4>> names the Move
\* object 4, which is no coin.
Transactions ==
    {<<Balances, <<1>>>>, <<Balances, <<2, 1>>>>, <<Balances, <<3, 1, 2>>>>,
     <<Balances, <<1, 4>>>>, <<BigBalances, <<1, 2, 3>>>>}

\* InputObjects::into_object_map
InputObjectMap(bal) ==
    [i \in InputIds |->
        Object(i,
               IF i \in CoinIds THEN CoinData(bal[i], InputVersions[i])
               ELSE MoveData(0, InputVersions[i]),
               AddressOwner(Sender), InputRebates[i], OldDigest)]

\* InputObjects::lamport_timestamp: one more than every input version
LamportTimestamp(objects) ==
    1 + Max({object_version(objects[i]) : i \in DOMAIN objects})

\* TemporaryStore::new
Init ==
    /\ \E tx \in Transactions :
          /\ input_objects = InputObjectMap(tx[1])
          /\ lamport_timestamp = LamportTimestamp(InputObjectMap(tx[1]))
          /\ gas = tx[2]
    /\ mutable_input_refs = [i \in InputIds |-> <<i, InputVersions[i]>>]
    /\ written = EmptyMap
    /\ deleted = EmptyMap
    /\ events = << >>
    /\ gas_charged = NoGasCharged
    /\ gas_status = NewMeter
    /\ execution_result = Ok
    /\ inner = NoInner
    /\ effects = NoEffects
    /\ disciplined = TRUE
    /\ nops = 0
    /\ logged = << >>
    /\ last_write = EmptyMap
    /\ hist = [op |-> "new"]

Snapshot == <<input_objects, lamport_timestamp, mutable_input_refs>>
Config == <<gas>>

\* The store after an operation.
Becomes(s) ==
    /\ written' = s.written
    /\ deleted' = s.deleted
    /\ events' = s.events
    /\ last_write' = s.wrote
    /\ disciplined' = (disciplined /\ Disciplined(s.bad))

UserHist == [op |-> "user"]

\* The execution runs before the driver charges gas (charge_gas comes at the
\* completion of the transaction), and makes at most MaxOps calls.
Executing == inner = NoInner /\ gas_charged = NoGasCharged /\ nops < MaxOps

WriteObject ==
    /\ Executing
    /\ \E w \in UserWrites :
          /\ Becomes(write_object(ThisStore, UserCtx, w.obj, w.kind))
          /\ hist' = [op |-> "user", id |-> w.obj.id]
    /\ nops' = nops + 1
    /\ UNCHANGED <<Snapshot, Config, gas_charged, gas_status, execution_result, inner, effects,
                   logged>>

DeleteObject ==
    /\ Executing
    /\ \E d \in UserDeletes :
          /\ Becomes(delete_object(ThisStore, UserCtx, d.id, d.version, d.kind))
          /\ hist' = [op |-> "user", id |-> d.id]
    /\ nops' = nops + 1
    /\ UNCHANGED <<Snapshot, Config, gas_charged, gas_status, execution_result, inner, effects,
                   logged>>

\* A change map with two keys.
ApplyObjectChanges ==
    /\ Executing
    /\ nops + 2 <= MaxOps
    /\ \E k1 \in Ids : \E k2 \in Ids \ (1..k1) :
       \E c1 \in UserChanges(k1) : \E c2 \in UserChanges(k2) :
          Becomes(apply_object_changes(ThisStore,
                                       [k \in {k1, k2} |-> IF k = k1 THEN c1 ELSE c2],
                                       <<k1, k2>>))
    /\ nops' = nops + 2
    /\ hist' = UserHist
    /\ UNCHANGED <<Snapshot, Config, gas_charged, gas_status, execution_result, inner, effects,
                   logged>>

LogEvent ==
    /\ Executing
    /\ Len(events) < MaxEvents
    /\ \E e \in UserEvents : /\ Becomes(log_event(ThisStore, e))
                              /\ logged' = Append(logged, e)
    /\ nops' = nops + 1
    /\ hist' = UserHist
    /\ UNCHANGED <<Snapshot, Config, gas_charged, gas_status, execution_result, inner, effects>>

\* full: the call found written, deleted and events all non-empty.
DropWrites ==
    /\ inner = NoInner
    /\ Becomes(drop_writes(ThisStore))
    /\ logged' = << >>
    /\ hist' = [op |-> "drop_writes",
                full |-> written # EmptyMap /\ deleted # EmptyMap /\ events # << >>]
    /\ UNCHANGED <<Snapshot, Config, gas_charged, gas_status, execution_result, inner, effects,
                   nops>>

\* Storage::reset, the adapter (lines 998-1002)
StorageReset ==
    /\ inner = NoInner
    /\ Becomes(storage_reset(ThisStore))
    /\ logged' = << >>
    /\ hist' = [op |-> "storage_reset",
                full |-> written # EmptyMap /\ deleted # EmptyMap /\ events # << >>]
    /\ UNCHANGED <<Snapshot, Config, gas_charged, gas_status, execution_result, inner, effects,
                   nops>>

SmashGasReturns(r) ==
    /\ Becomes(r.store)
    /\ hist' = [op |-> "smash_gas", err |-> r.err, ret |-> r.ret,
                fresh |-> (ThisStore = FreshStore)]

SmashGas ==
    /\ inner = NoInner
    /\ SmashGasReturns(smash_gas(ThisStore, Sender, gas))
    /\ UNCHANGED <<Snapshot, Config, gas_charged, gas_status, execution_result, inner, effects,
                   nops, logged>>

\* The charge that runs out of gas: any charge of the retry; in the first pass, whose
\* outcome is dropped by the reset, the first or the second charge.
FailChoices == 0..(Cardinality(Ids) + 1)
FirstFailChoices == 0..2
ExecutionResults == {Ok, Failed(ExecutionAborted)}

\* What charge_gas leaves when it returns; a charge picked to fail does fail.
ChargeGasReturns(r, exec_in, f1, f2) ==
    /\ ~r.panic
    /\ (f1 # 0) = (r.err1 # NoErr)
    /\ (f2 # 0) = (r.err2 # NoErr)
    /\ Becomes(r.store)
    /\ gas_status' = r.meter
    /\ execution_result' = r.execution_result
    /\ gas_charged' = r.gas_charged
    /\ logged' = IF r.resets = << >> THEN logged ELSE << >>
    /\ hist' = [op |-> "charge_gas", exec_in |-> exec_in, err1 |-> r.err1,
                err2 |-> r.err2, resets |-> r.resets,
                balanced |-> execution_balanced(ThisStore),
                calls |-> r.calls,
                gas_ctx |-> IF gas[1] \in DOMAIN written
                            THEN written[gas[1]].ctx ELSE CtxGas(Sender),
                used |-> [created |-> \E id \in DOMAIN written :
                                          written[id].kind \in {"Create", "Unwrap"},
                          deleted |-> \E id \in DOMAIN deleted :
                                          deleted[id].ctx = UserCtx,
                          events |-> events # << >>]]

\* charge_gas(sender, gas[0].0, gas_status, execution_result, gas); the asserts at
\* lines 736-737 want a meter that has charged no storage yet.
ChargeGas ==
    /\ inner = NoInner
    /\ gas_status.storage_rebate = 0
    /\ gas_status.storage_cost = 0
    /\ \E exec_in \in ExecutionResults : \E f1 \in FirstFailChoices :
       \E f2 \in (IF f1 = 0 THEN {0} ELSE FailChoices) :
          ChargeGasReturns(
              charge_gas(ThisStore, gas_status, Sender, gas[1], exec_in, gas, f1, f2),
              exec_in, f1, f2)
    /\ UNCHANGED <<Snapshot, Config, inner, effects, nops>>

\* into_inner(self): the store is consumed.
IntoInner ==
    /\ inner = NoInner
    /\ shared_creation_ok(ThisStore)
    /\ inner' = into_inner(ThisStore, gas_charged)
    /\ hist' = [op |-> "into_inner", after |-> hist]
    /\ UNCHANGED <<Snapshot, Config, written, deleted, events, gas_charged, gas_status,
                   execution_result, effects, disciplined, nops, logged, last_write>>

ToEffectsReturns(r) ==
    /\ inner' = r.inner
    /\ effects' = r.effects

\* to_effects(self, ..): the store is consumed.  The index inner.written[..] at
\* line 590 panics when the gas object is not a key of written.
ToEffects ==
    /\ inner = NoInner
    /\ shared_creation_ok(ThisStore)
    /\ gas[1] = ZeroId \/ gas[1] \in DOMAIN written
    /\ ToEffectsReturns(to_effects(ThisStore, gas_charged, execution_result,
                                   summary(gas_status), gas[1]))
    /\ hist' = [op |-> "to_effects", after |-> hist]
    /\ UNCHANGED <<Snapshot, Config, written, deleted, events, gas_charged, gas_status,
                   execution_result, disciplined, nops, logged, last_write>>

Next ==
    \/ WriteObject
    \/ DeleteObject
    \/ ApplyObjectChanges
    \/ LogEvent
    \/ DropWrites
    \/ StorageReset
    \/ SmashGas
    \/ ChargeGas
    \/ IntoInner
    \/ ToEffects

Spec == Init /\ [][Next]_vars

-----------------------------------------------------------------------------
(* The properties checked *)

\* The ids of mutable_input_refs, and the ids of the gas payment
MutableIds == {mutable_input_refs[i][1] : i \in DOMAIN mutable_input_refs}
GasIds == Range(gas)

RECURSIVE SumOfBalances(_)
\* The sum of the input balances of a list of coins
SumOfBalances(ids) ==
    IF ids = << >> THEN 0
    ELSE input_objects[Head(ids)].data.value + SumOfBalances(Tail(ids))

\* C1: in every state reached from a fresh store by write_object, delete_object,
\* apply_object_changes and drop_writes calls, none of which writes an id that is
\* in Deleted or deletes an id that is in Written, the key sets of Written and
\* Deleted are disjoint.  The formula says it of more runs than these: log_event,
\* Storage::reset and smash_gas (which works through write_object and
\* delete_object) may run too.  Only charge_gas is left out: it has not run while
\* gas_charged is None.
C1_Disjointness ==
    disciplined /\ gas_charged = NoGasCharged
        => DOMAIN written \cap DOMAIN deleted = {}

\* A disciplined run of writes and deletes alone (with one gas coin smash_gas does
\* nothing) that has filled both maps.
C1_Witness ==
    /\ disciplined /\ gas_charged = NoGasCharged /\ inner = NoInner
    /\ Len(gas) = 1 /\ hist.op = "user" /\ nops = MaxOps
    /\ DOMAIN written # {} /\ DOMAIN deleted # {}

\* C2: after into_inner on a store that went through charge_gas, on every path
\* of charge_gas, every id of mutable_input_refs is a key of the output written
\* map or of the output deleted map.
C2_MutableInputsCovered ==
    inner # NoInner /\ hist.after.op = "charge_gas"
        => \A i \in DOMAIN inner.mutable_inputs :
               inner.mutable_inputs[i][1]
                   \in DOMAIN inner.written \cup DOMAIN inner.deleted

\* into_inner after a charge_gas whose first pass and retry both ran out of gas,
\* with gas coins merged.
C2_Witness ==
    /\ inner # NoInner /\ hist.after.op = "charge_gas"
    /\ hist.after.err1 # NoErr /\ hist.after.err2 # NoErr
    /\ DOMAIN inner.deleted # {}

\* C3: in the output of into_inner every non-package object of written has the
\* version lamport_timestamp and every entry of deleted records the version
\* lamport_timestamp, whatever versions write_object and delete_object were
\* given; a package of written keeps the version it was written with.
C3_LamportStamping ==
    inner # NoInner =>
        /\ \A id \in DOMAIN inner.written :
               object_version(inner.written[id].obj) =
                   IF is_package(inner.written[id].obj)
                   THEN object_version(written[id].obj)
                   ELSE lamport_timestamp
        /\ \A id \in DOMAIN inner.deleted :
               inner.deleted[id].version = lamport_timestamp

\* An output with a package whose version is not the timestamp, an object that
\* was written with another version, and a deletion recorded with another version.
C3_Witness ==
    /\ inner # NoInner
    /\ \E id \in DOMAIN inner.written :
           /\ is_package(inner.written[id].obj)
           /\ object_version(inner.written[id].obj) # lamport_timestamp
    /\ \E id \in DOMAIN written :
           /\ ~is_package(written[id].obj)
           /\ object_version(written[id].obj) # lamport_timestamp
    /\ \E id \in DOMAIN deleted : deleted[id].version # lamport_timestamp

\* C4: every object of the output written map of into_inner has
\* previous_transaction equal to tx_digest, on every path: objects the caller
\* wrote, unused mutable inputs force-mutated by the gas charging, and the gas
\* coin that charge_gas_for_storage_changes puts into Written from the input
\* snapshot, also when the storage charge and its retry both fail.
C4_TxStamping ==
    inner # NoInner =>
        \A id \in DOMAIN inner.written :
            inner.written[id].obj.previous_transaction = TxDigest

\* The output after a charge_gas with one gas coin, which nothing but the direct
\* insertion had put into Written, whose storage charge and retry both failed.
C4_Witness ==
    /\ inner # NoInner /\ hist.after.op = "charge_gas"
    /\ Len(gas) = 1 /\ nops = 0
    /\ hist.after.err1 # NoErr /\ hist.after.err2 # NoErr
    /\ gas[1] \in DOMAIN inner.written

\* C5: a storage-charging pass is all-or-nothing: if
\* charge_gas_for_storage_changes returns an out-of-gas error, the storage_rebate
\* of every object in Written is what it was before the pass (for an object the
\* pass itself put into Written, the rebate of the value it was read with).
C5_AllOrNothing ==
    inner = NoInner /\ gas_charged = NoGasCharged =>
        \A f \in FailChoices :
            LET r == charge_gas_for_storage_changes(ThisStore, gas_status, Sender,
                                                    gas[1], f, 1)
            IN r.err # NoErr =>
                   \A id \in DOMAIN r.store.written :
                       r.store.written[id].obj.storage_rebate
                           = read_object(ThisStore, id).storage_rebate

\* C6: for any prior writes, deletes and logged events, Written, Deleted and
\* Events right after reset(sender, gas, gas_status) are what smash_gas(sender,
\* gas) leaves on a freshly constructed store with the same inputs.  reset runs
\* inside charge_gas, which hands out the store each of its resets left.
C6_ResetIsFreshSmash ==
    hist.op = "charge_gas" =>
        \A i \in DOMAIN hist.resets :
            /\ hist.resets[i].written = smash_gas(FreshStore, Sender, gas).store.written
            /\ hist.resets[i].deleted = smash_gas(FreshStore, Sender, gas).store.deleted
            /\ hist.resets[i].events = smash_gas(FreshStore, Sender, gas).store.events

\* A charge_gas that reset twice (the execution had aborted, and the first pass ran
\* out of gas) a store the execution had used, with gas coins to merge.
C6_Witness ==
    /\ hist.op = "charge_gas" /\ Len(hist.resets) = 2
    /\ nops = MaxOps /\ Len(gas) > 1

\* C7: charge_gas changes execution_result in one case only: it was Ok on entry
\* and the first storage-charging pass failed; then it is Err of the error of that
\* first pass, whether the retry succeeds or not.  An Err on entry is kept on every
\* path, and a first pass that succeeds leaves the result as it was.
C7_ExecutionResult ==
    hist.op = "charge_gas" =>
        execution_result =
            IF hist.exec_in.ok /\ hist.err1 # NoErr
            THEN Failed(hist.err1)
            ELSE hist.exec_in

\* A successful execution whose first pass and retry both ran out of gas.
C7_Witness ==
    /\ hist.op = "charge_gas" /\ hist.exec_in.ok
    /\ hist.err1 # NoErr /\ hist.err2 # NoErr
    /\ execution_result = Failed(hist.err1)

C9_GasChargedOnce ==
    /\ gas_charged = NoGasCharged
    /\ [][IF hist'.op = "charge_gas"
          THEN gas_charged' = [sender |-> Sender, gas_object_id |-> gas[1],
                               summary |-> summary(gas_status')]
          ELSE gas_charged' = gas_charged]_vars

\* gas_charged set by a charge_gas that recovered from out of gas, and kept by
\* a drop_writes after it.
C9_Witness ==
    /\ gas_charged # NoGasCharged /\ hist.op = "drop_writes"
    /\ gas_charged.summary = summary(gas_status)
    /\ gas_charged.summary.storage_cost > 0
    /\ ~execution_result.ok

\* C10: for a list gas of n >= 1 distinct gas coins, all inputs, a successful
\* smash_gas on a fresh store returns gas[0]; for n > 1 it leaves in Written the
\* primary coin gas[0] alone, of kind Mutate, with the sum of the input balances
\* of the n coins, and in Deleted exactly the ids gas[1..], each with
\* DeleteKind::Normal and its input version; for n = 1 it changes nothing.
C10_SmashGas ==
    hist.op = "smash_gas" /\ hist.fresh /\ hist.err = NoErr =>
        /\ hist.ret = gas[1]
        /\ events = << >>
        /\ IF Len(gas) > 1
           THEN /\ DOMAIN written = {gas[1]}
                /\ written[gas[1]].kind = "Mutate"
                /\ written[gas[1]].obj.data.value = SumOfBalances(gas)
                /\ written[gas[1]].obj.id = gas[1]
                /\ DOMAIN deleted = GasIds \ {gas[1]}
                /\ \A id \in DOMAIN deleted :
                       /\ deleted[id].kind = "Normal"
                       /\ deleted[id].version = object_version(input_objects[id])
           ELSE written = EmptyMap /\ deleted = EmptyMap

\* A successful smash_gas of three coins on a fresh store.
C10_Witness ==
    /\ hist.op = "smash_gas" /\ hist.fresh /\ hist.err = NoErr
    /\ Len(gas) = 3 /\ Cardinality(DOMAIN deleted) = 2

\* C11: for a metered transaction that touches no dynamic field and whose
\* execution neither mints nor burns balance, after charge_gas the sum of
\* get_total_sui over the mutable inputs is the sum of get_total_sui over Written
\* plus summary.computation_cost plus the storage-fund rebate inflow: the
\* assertion of check_sui_conserved does not fire, on any path of charge_gas.
\* The execution is one that never wrote a deleted id or deleted a written id.
C11_Conservation ==
    /\ hist.op = "charge_gas" /\ disciplined
    /\ hist.balanced /\ dynamic_fields_touched(ThisStore) = {}
    => check_sui_conserved(ThisStore, gas_charged)

\* C12: the event stream of into_inner is, in this order: the gas event (only
\* if gas_charged is present), the events synthesized for the Written entries in
\* ascending id order, one event per Deleted entry in ascending id order, and the
\* events passed to log_event since the last drop_writes/reset, in call order; no
\* synthesized event comes after a logged one.
C12_EventOrder ==
    inner # NoInner =>
        LET ev == inner.events
            n == Len(inner.events)
            u == Len(logged)
            d == Cardinality(DOMAIN deleted)
            g == IF gas_charged = NoGasCharged THEN 0 ELSE 1
        IN /\ n >= g + d + u
           /\ SubSeq(ev, n - u + 1, n) = logged
           /\ \A i \in 1..(n - u) : ev[i].type # "MoveEvent"
           /\ \A i \in 1..(n - u) :
                  (ev[i].type = "BalanceChange" /\ ev[i].change_type = "Gas")
                      <=> (i = 1 /\ g = 1)
           /\ \A k \in 1..d :
                  /\ ev[n - u - d + k].type \in {"DeleteObject", "BalanceChange"}
                  /\ ev[n - u - d + k].object_id = SortedSeq(DOMAIN deleted)[k]
           /\ \A i \in (g + 1)..(n - u - d) :
                  /\ ev[i].type # "MoveEvent"
                  /\ ev[i].object_id \in DOMAIN written
           /\ \A i, j \in (g + 1)..(n - u - d) :
                  i < j => ev[i].object_id <= ev[j].object_id

\* A stream with all four parts: a gas event, events of two written objects, a
\* deleted gas coin, and two different logged events.
C12_Witness ==
    /\ inner # NoInner /\ gas_charged # NoGasCharged
    /\ Len(logged) = 2 /\ logged[1] # logged[2]
    /\ DOMAIN deleted # {}
    /\ Len(inner.events) >= 3 + Cardinality(DOMAIN deleted) + Len(logged)

\* C13: in the effects built by to_effects each of the lists created, mutated,
\* unwrapped, deleted, wrapped and unwrapped_then_deleted is in strictly ascending
\* ObjectId order, whatever the order of the write_object and delete_object calls.
C13_EffectsListsAscending ==
    effects # NoEffects =>
        /\ \A L \in {effects.created, effects.mutated, effects.unwrapped} :
               \A i, j \in DOMAIN L : i < j => L[i][1][1] < L[j][1][1]
        /\ \A L \in {effects.deleted, effects.wrapped, effects.unwrapped_then_deleted} :
               \A i, j \in DOMAIN L : i < j => L[i][1] < L[j][1]

\* Effects with two created objects, where the object with the larger id was
\* written first and the one with the smaller id last, and several mutated ones.
C13_Witness ==
    /\ effects # NoEffects
    /\ hist.after = [op |-> "user", id |-> 5]
    /\ Len(effects.created) = 2
    /\ Len(effects.mutated) >= 1

\* C14: the modified_at_versions list that to_effects passes to the effects is in
\* ascending ObjectId order over the whole list, also when the store holds both
\* Mutate entries in written and entries in deleted.
C14_ModifiedAtVersionsAscending ==
    effects # NoEffects =>
        \A i, j \in DOMAIN effects.modified_at_versions :
            i < j => effects.modified_at_versions[i][1]
                         <= effects.modified_at_versions[j][1]

\* What read-your-writes promises for id: the object last passed to write_object
\* with the digest of the transaction in it, else the input, else None.
LastWritten(id) ==
    IF id \in DOMAIN last_write
    THEN [last_write[id] EXCEPT !.previous_transaction = TxDigest]
    ELSE IF id \in DOMAIN input_objects THEN input_objects[id]
    ELSE NoObject

C17_DropWritesIdempotent ==
    /\ hist.op \in {"drop_writes", "storage_reset"}
           => written = EmptyMap /\ deleted = EmptyMap /\ events = << >>
    /\ drop_writes(ThisStore).written = EmptyMap
    /\ drop_writes(ThisStore).deleted = EmptyMap
    /\ drop_writes(ThisStore).events = << >>
    /\ drop_writes(drop_writes(ThisStore)) = drop_writes(ThisStore)
    /\ storage_reset(ThisStore) = drop_writes(ThisStore)

\* Storage::reset has run on a store that held writes, deletions and events.
C17_Witness ==
    /\ hist.op = "storage_reset" /\ hist.full
    /\ written = EmptyMap /\ deleted = EmptyMap /\ events = << >>

\* C18: no operation changes input_objects, mutable_input_refs or
\* lamport_timestamp, and into_inner (also within to_effects) returns the first
\* two unchanged as objects and mutable_inputs: rebates and the gas deduction go
\* to the copies in written.
C18_InputSnapshotFrozen ==
    [][/\ input_objects' = input_objects
       /\ mutable_input_refs' = mutable_input_refs
       /\ lamport_timestamp' = lamport_timestamp
       /\ inner' # NoInner => /\ inner'.objects = input_objects
                              /\ inner'.mutable_inputs = mutable_input_refs]_vars

\* into_inner after a charge_gas that deducted gas from coin 1 and changed its
\* storage_rebate: the returned input object 1 has neither change.
C18_Witness ==
    /\ inner # NoInner /\ hist.after.op = "charge_gas"
    /\ 1 \in DOMAIN inner.written
    /\ inner.written[1].obj.data.value # inner.objects[1].data.value
    /\ inner.written[1].obj.storage_rebate # inner.objects[1].storage_rebate
    /\ inner.objects[1] = input_objects[1]

\* C19: an object written with kind Create and owner Shared with
\* initial_shared_version 0 has owner Shared with initial_shared_version =
\* lamport_timestamp in the output of into_inner; a shared object written with
\* kind Mutate or Unwrap keeps the initial_shared_version it was written with.
C19_InitialSharedVersion ==
    inner # NoInner =>
        \A id \in DOMAIN written :
            written[id].obj.owner.tag = "Shared" =>
                inner.written[id].obj.owner =
                    IF written[id].kind = "Create"
                    THEN Shared(lamport_timestamp)
                    ELSE written[id].obj.owner

\* An output with a created shared object, stamped, and a mutated shared object
\* whose initial_shared_version is another one than the lamport timestamp.
C19_Witness ==
    /\ inner # NoInner
    /\ \E id \in DOMAIN written :
          /\ written[id].kind = "Create"
          /\ written[id].obj.owner = Shared(SequenceNumberMIN)
          /\ inner.written[id].obj.owner = Shared(lamport_timestamp)
    /\ \E id \in DOMAIN written :
          /\ written[id].kind = "Mutate"
          /\ written[id].obj.owner.tag = "Shared"
          /\ inner.written[id].obj.owner = written[id].obj.owner
          /\ written[id].obj.owner.v # lamport_timestamp

\* C20: write_object for an id that is in deleted and delete_object for an id
\* that is in written are rejected and not applied, so that no state reached
\* through these calls (before charge_gas, only they and the clearing calls change
\* the two maps) has an id in both maps.
C20_NoIdInBothMaps ==
    gas_charged = NoGasCharged => DOMAIN written \cap DOMAIN deleted = {}

\* The versions of the objects of the input snapshot
InputVersionSet == {object_version(input_objects[i]) : i \in DOMAIN input_objects}

\* C21: with lamport_timestamp one more than the largest input version, every
\* object of the output written map of into_inner that is no package, and every
\* entry of the output deleted map, has a version strictly greater than the
\* version of every input object.
C21_LamportMonotonicity ==
    inner # NoInner /\ lamport_timestamp = 1 + Max(InputVersionSet) =>
        /\ \A id \in DOMAIN inner.written :
               ~is_package(inner.written[id].obj) =>
                   \A v \in InputVersionSet : object_version(inner.written[id].obj) > v
        /\ \A id \in DOMAIN inner.deleted :
               \A v \in InputVersionSet : inner.deleted[id].version > v

\* An output with an object that was written at a version below the largest
\* input version, and a deletion that was recorded at such a version.
C21_Witness ==
    /\ inner # NoInner /\ lamport_timestamp = 1 + Max(InputVersionSet)
    /\ \E id \in DOMAIN written :
           /\ ~is_package(written[id].obj)
           /\ object_version(written[id].obj) < Max(InputVersionSet)
           /\ object_version(inner.written[id].obj) > Max(InputVersionSet)
    /\ \E id \in DOMAIN deleted :
           /\ deleted[id].version < Max(InputVersionSet)
           /\ inner.deleted[id].version > Max(InputVersionSet)

\* The part of the event stream of into_inner that the loop over written has
\* pushed: what lies between the gas event and the events of the deleted entries.
WrittenSegment ==
    SubSeq(inner.events,
           (IF gas_charged = NoGasCharged THEN 0 ELSE 1) + 1,
           Len(inner.events) - Len(logged) - Cardinality(DOMAIN deleted))

\* The events the written entry of id has yielded
WrittenEventsOf(id) == SelectSeq(WrittenSegment, LAMBDA e : e.object_id = id)

\* C22: a package written with kind Create yields exactly one event for its id,
\* a Publish event with the sender of the writing context and the package id,
\* and no NewObject event; an object that is neither package nor coin, written
\* with kind Create, yields exactly one NewObject event, with version
\* lamport_timestamp.
C22_CreateEvents ==
    inner # NoInner =>
        \A id \in DOMAIN written :
            written[id].kind = "Create" /\ ~is_coin(written[id].obj) =>
                /\ Len(WrittenEventsOf(id)) = 1
                /\ IF is_package(written[id].obj)
                   THEN /\ WrittenEventsOf(id)[1].type = "Publish"
                        /\ WrittenEventsOf(id)[1].sender = written[id].ctx.sender
                        /\ WrittenEventsOf(id)[1].object_id = id
                   ELSE /\ WrittenEventsOf(id)[1].type = "NewObject"
                        /\ WrittenEventsOf(id)[1].version = lamport_timestamp

\* An output with a created package and a created Move object.
C22_Witness ==
    /\ inner # NoInner
    /\ \E id \in DOMAIN written :
           /\ written[id].kind = "Create" /\ is_package(written[id].obj)
           /\ WrittenEventsOf(id)[1].type = "Publish"
    /\ \E id \in DOMAIN written :
           /\ written[id].kind = "Create" /\ written[id].obj.data.type = "move"
           /\ WrittenEventsOf(id)[1].type = "NewObject"

\* How often the pair p occurs in modified_at_versions
PairCount(p) == Len(SelectSeq(effects.modified_at_versions, LAMBDA x : x = p))

\* The pairs of the Mutate entries of written and of the entries of deleted, with
\* the versions the store holds before into_inner stamps them
MutatePairs ==
    {<<id, object_version(written[id].obj)>> :
        id \in {x \in DOMAIN written : written[x].kind = "Mutate"}}
DeletePairs == {<<id, deleted[id].version>> : id \in DOMAIN deleted}

\* C23: modified_at_versions of to_effects has exactly one pair for every entry
\* of written of kind Mutate and one for every entry of deleted, of any kind, and
\* none for Create and Unwrap entries; the pair carries the version the object
\* was written or deleted with, before the lamport stamp of into_inner.
C23_ModifiedAtVersions ==
    effects # NoEffects =>
        /\ Len(effects.modified_at_versions)
               = Cardinality(MutatePairs) + Cardinality(DeletePairs)
        /\ \A p \in Range(effects.modified_at_versions) \cup MutatePairs \cup DeletePairs :
               PairCount(p) = (IF p \in MutatePairs THEN 1 ELSE 0)
                                  + (IF p \in DeletePairs THEN 1 ELSE 0)

\* Effects of a store with a mutated, a created or unwrapped and a deleted
\* object, where the mutated and the deleted one get other versions by the stamp.
C23_Witness ==
    /\ effects # NoEffects
    /\ \E id \in DOMAIN written : written[id].kind \in {"Create", "Unwrap"}
    /\ \E p \in MutatePairs : p[2] # lamport_timestamp /\ PairCount(p) = 1
    /\ \E p \in DeletePairs : p[2] # lamport_timestamp /\ PairCount(p) = 1

\* The ids of a list of (object_ref, owner) pairs, and of a list of
\* (id, version, digest) triples
RefIds(L) == {L[i][1][1] : i \in DOMAIN L}
TripleIds(L) == {L[i][1] : i \in DOMAIN L}

\* C24: to_effects partitions its outputs by kind: every id of written is in
\* exactly one of created (Create), mutated (Mutate), unwrapped (Unwrap), every
\* id of deleted in exactly one of deleted (Normal), unwrapped_then_deleted
\* (UnwrapThenDelete), both with OBJECT_DIGEST_DELETED, and wrapped (Wrap, with
\* OBJECT_DIGEST_WRAPPED); no id is in two of the six lists, and the lists hold
\* no other ids.
C24_EffectsPartition ==
    effects # NoEffects =>
        /\ RefIds(effects.created) = {id \in DOMAIN written : written[id].kind = "Create"}
        /\ RefIds(effects.mutated) = {id \in DOMAIN written : written[id].kind = "Mutate"}
        /\ RefIds(effects.unwrapped) = {id \in DOMAIN written : written[id].kind = "Unwrap"}
        /\ TripleIds(effects.deleted)
               = {id \in DOMAIN deleted : deleted[id].kind = "Normal"}
        /\ TripleIds(effects.unwrapped_then_deleted)
               = {id \in DOMAIN deleted : deleted[id].kind = "UnwrapThenDelete"}
        /\ TripleIds(effects.wrapped) = {id \in DOMAIN deleted : deleted[id].kind = "Wrap"}
        /\ \A i \in DOMAIN effects.deleted : effects.deleted[i][3] = OBJECT_DIGEST_DELETED
        /\ \A i \in DOMAIN effects.unwrapped_then_deleted :
               effects.unwrapped_then_deleted[i][3] = OBJECT_DIGEST_DELETED
        /\ \A i \in DOMAIN effects.wrapped : effects.wrapped[i][3] = OBJECT_DIGEST_WRAPPED
        /\ Len(effects.created) + Len(effects.mutated) + Len(effects.unwrapped)
             + Len(effects.deleted) + Len(effects.unwrapped_then_deleted)
             + Len(effects.wrapped)
               = Cardinality(DOMAIN written \cup DOMAIN deleted)

\* For the claims about balance events: what the event e says
BalanceEvent(e) ==
    [type |-> e.type, change_type |-> e.change_type, owner |-> e.owner,
     object_id |-> e.object_id, version |-> e.version, amount |-> e.amount]
ExpectedBalanceEvent(change_type, owner, id, version, amount) ==
    [type |-> "BalanceChange", change_type |-> change_type, owner |-> owner,
     object_id |-> id, version |-> version, amount |-> amount]

\* The input balance of coin id, less the net gas usage if it is the gas coin
AdjustedOldBalance(id) ==
    input_objects[id].data.value
        - (IF gas_charged # NoGasCharged /\ gas_charged.gas_object_id = id
           THEN net_gas_usage(gas_charged.summary) ELSE 0)

\* The ids of the input coins that are written as coins with kind Mutate
MutatedCoins ==
    {id \in DOMAIN written \cap DOMAIN input_objects :
        /\ written[id].kind = "Mutate"
        /\ is_coin(written[id].obj) /\ is_coin(input_objects[id])}

\* C25: for an input coin written with kind Mutate, with the adjusted old balance
\* (input balance, less the net gas usage for the gas coin): same owner and
\* adjusted old > new gives one Pay event with amount new - adjusted old at the
\* old version; same owner and adjusted old < new one Receive event with that
\* amount at the new version; equal balances no event; a changed owner gives
\* Pay(-adjusted old, old owner, old version) and then Receive(+new, new owner,
\* new version).
C25_CoinMutateEvents ==
    inner # NoInner =>
        \A id \in MutatedCoins :
            LET old == input_objects[id]
                new == inner.written[id].obj
                adj == AdjustedOldBalance(id)
                ev == [i \in DOMAIN WrittenEventsOf(id) |->
                          BalanceEvent(WrittenEventsOf(id)[i])]
            IN /\ \A i \in DOMAIN WrittenEventsOf(id) :
                      WrittenEventsOf(id)[i].type = "BalanceChange"
               /\ ev = IF old.owner = new.owner
                       THEN IF adj > new.data.value
                            THEN <<ExpectedBalanceEvent("Pay", old.owner, id,
                                       object_version(old), new.data.value - adj)>>
                            ELSE IF adj < new.data.value
                            THEN <<ExpectedBalanceEvent("Receive", new.owner, id,
                                       object_version(new), new.data.value - adj)>>
                            ELSE << >>
                       ELSE <<ExpectedBalanceEvent("Pay", old.owner, id,
                                  object_version(old), 0 - adj),
                              ExpectedBalanceEvent("Receive", new.owner, id,
                                  object_version(new), new.data.value)>>

\* An output after charge_gas where the gas coin has its net gas usage taken off
\* the old balance, one coin has changed its owner (two events) and one coin is
\* written unchanged (no event).
C25_Witness ==
    /\ inner # NoInner /\ gas_charged # NoGasCharged
    /\ gas_charged.gas_object_id \in MutatedCoins
    /\ net_gas_usage(gas_charged.summary) # 0
    /\ \E id \in MutatedCoins : Len(WrittenEventsOf(id)) = 2
    /\ \E id \in MutatedCoins : Len(WrittenEventsOf(id)) = 0
    /\ \E id \in MutatedCoins :
           /\ Len(WrittenEventsOf(id)) = 1
           /\ WrittenEventsOf(id)[1].change_type = "Pay"

\* The positions of the Gas events in the event stream of into_inner
GasEventPositions ==
    {i \in DOMAIN inner.events :
        /\ inner.events[i].type = "BalanceChange"
        /\ inner.events[i].change_type = "Gas"}

\* C26: when gas_charged is present, the first event of the stream of into_inner
\* is a BalanceChange of type Gas for the gas coin, with the owner and the
\* version the gas coin has in the input snapshot and the negated net gas usage
\* as amount; when gas_charged is absent there is no Gas event.
C26_GasEvent ==
    inner # NoInner =>
        IF gas_charged = NoGasCharged
        THEN GasEventPositions = {}
        ELSE /\ GasEventPositions = {1}
             /\ BalanceEvent(inner.events[1])
                    = ExpectedBalanceEvent(
                          "Gas",
                          input_objects[gas_charged.gas_object_id].owner,
                          gas_charged.gas_object_id,
                          object_version(input_objects[gas_charged.gas_object_id]),
                          0 - net_gas_usage(gas_charged.summary))

\* An output whose gas coin was given to another owner by the execution and
\* received merged coins: the Gas event names the input owner and version.
C26_Witness ==
    /\ inner # NoInner /\ gas_charged # NoGasCharged
    /\ inner.written[gas_charged.gas_object_id].obj.owner
           # input_objects[gas_charged.gas_object_id].owner
    /\ DOMAIN deleted # {}
    /\ inner.events[1].owner = input_objects[gas_charged.gas_object_id].owner
    /\ inner.events[1].version # object_version(inner.written[gas_charged.gas_object_id].obj)
    /\ net_gas_usage(gas_charged.summary) # 0

\* The part of the event stream of into_inner that the loop over deleted has
\* pushed: it lies before the logged events.
DeletedSegment ==
    SubSeq(inner.events,
           Len(inner.events) - Len(logged) - Cardinality(DOMAIN deleted) + 1,
           Len(inner.events) - Len(logged))

\* C27: into_inner emits exactly one event for every entry of deleted: for an
\* input coin a Pay BalanceChange for the input owner at the input version with
\* minus the input balance as amount, for every other id a DeleteObject event
\* with the deleting context and the version lamport_timestamp.
C27_DeletedEvents ==
    inner # NoInner =>
        /\ Len(DeletedSegment) = Cardinality(DOMAIN deleted)
        /\ \A k \in DOMAIN DeletedSegment :
               LET id == keys(deleted)[k]
               IN IF id \in DOMAIN input_objects /\ is_coin(input_objects[id])
                  THEN /\ DeletedSegment[k].type = "BalanceChange"
                       /\ BalanceEvent(DeletedSegment[k])
                              = ExpectedBalanceEvent(
                                    "Pay", input_objects[id].owner, id,
                                    object_version(input_objects[id]),
                                    0 - input_objects[id].data.value)
                  ELSE DeletedSegment[k]
                           = [type |-> "DeleteObject", ctx |-> deleted[id].ctx,
                              object_id |-> id, version |-> lamport_timestamp]
        /\ \A i \in DOMAIN inner.events :
               inner.events[i].type = "DeleteObject" =>
                   /\ i > Len(inner.events) - Len(logged) - Cardinality(DOMAIN deleted)
                   /\ i <= Len(inner.events) - Len(logged)

\* An output with a deleted input coin, a deleted input that is no coin and a
\* deleted object that is no input.
C27_Witness ==
    /\ inner # NoInner
    /\ \E id \in DOMAIN deleted : id \in DOMAIN input_objects /\ is_coin(input_objects[id])
    /\ \E id \in DOMAIN deleted : id \in DOMAIN input_objects /\ ~is_coin(input_objects[id])
    /\ \E id \in DOMAIN deleted : id \notin DOMAIN input_objects
    /\ Len(DeletedSegment) = 3

\* C28: after charge_gas has returned, on any path, gas_object_id is a key of
\* written with kind Mutate and is no key of deleted, so that to_effects finds the
\* gas coin in the output written map.
C28_GasCoinWritten ==
    hist.op = "charge_gas" =>
        /\ gas_charged.gas_object_id \in DOMAIN written
        /\ written[gas_charged.gas_object_id].kind = "Mutate"
        /\ gas_charged.gas_object_id \notin DOMAIN deleted

\* C29: after charge_gas the context stored with the gas coin in written is
\* the context of the execution's last write to the gas coin, if the execution
\* wrote it (hist.gas_ctx is the context the gas coin was written with when
\* charge_gas was called) and charge_gas made no reset; in every other case it is
\* the gas context of the sender.
C29_GasCoinContext ==
    hist.op = "charge_gas" =>
        written[gas_charged.gas_object_id].ctx =
            IF hist.resets = << >> /\ hist.gas_ctx = UserCtx
            THEN UserCtx
            ELSE CtxGas(gas_charged.sender)

\* A charge_gas without reset after the execution has written the gas coin: the
\* gas coin keeps the context of the execution, with the gas deducted.
C29_Witness ==
    /\ hist.op = "charge_gas" /\ hist.resets = << >>
    /\ hist.gas_ctx = UserCtx
    /\ written[gas_charged.gas_object_id].ctx = UserCtx
    /\ written[gas_charged.gas_object_id].ctx # CtxGas(gas_charged.sender)
    /\ gas_used(gas_charged.summary) > 0

\* C30: when charge_gas is called with an execution_result that is Err, then
\* after it no object the execution created or unwrapped is in written (every
\* entry is a Mutate of an input), no deletion of the execution is in deleted
\* (only the merged gas coins, deleted by smash_gas under the gas context), the
\* event log is empty, and every object in written other than the primary gas
\* coin has the data and the owner of its input snapshot.
C30_RollbackOnAbort ==
    hist.op = "charge_gas" /\ ~hist.exec_in.ok =>
        /\ \A id \in DOMAIN written :
               /\ id \in DOMAIN input_objects
               /\ written[id].kind = "Mutate"
        /\ \A id \in DOMAIN deleted :
               /\ id \in GasIds \ {gas[1]}
               /\ deleted[id].ctx = CtxGas(Sender)
        /\ events = << >>
        /\ \A id \in DOMAIN written \ {gas[1]} :
               /\ written[id].obj.data = input_objects[id].data
               /\ written[id].obj.owner = input_objects[id].owner

\* A charge_gas for an aborted execution that had created or unwrapped an object
\* and deleted one, with a mutable input that is not the gas coin left in written.
C30_Witness ==
    /\ hist.op = "charge_gas" /\ ~hist.exec_in.ok
    /\ hist.used.created /\ hist.used.deleted
    /\ DOMAIN written \ {gas[1]} # {}

\* C31: when smash_gas returns an error (a gas ref that is no gas coin, or an
\* overflow of the balance while a coin is added), written, deleted and events
\* are what they were before the call: no gas coin has been put in deleted
\* without the primary coin having received its balance.
C31_SmashGasErrorChangesNothing ==
    [][hist'.op = "smash_gas" /\ hist'.err # NoErr =>
           UNCHANGED <<written, deleted, events>>]_vars

RECURSIVE SumOf(_, _)
\* The sum of f over the ids of S
SumOf(f, S) ==
    IF S = {} THEN 0 ELSE f[Min(S)] + SumOf(f, S \ {Min(S)})

\* new_object_size of the loop over written (line 527)
NewSize == [id \in DOMAIN written |-> object_size_for_gas_metering(written[id].obj)]

\* (old_object_size, storage_rebate) of lines 521-525 and 542-544: those of the
\* input; 0 for an id that is no input, which the loop over deleted skips
OldSize == [id \in Ids |-> IF id \in DOMAIN input_objects
                           THEN object_size_for_gas_metering(input_objects[id]) ELSE 0]
OldRebate == [id \in Ids |-> IF id \in DOMAIN input_objects
                             THEN input_objects[id].storage_rebate ELSE 0]

\* C32: a charging pass that succeeds asks the meter once for each entry of
\* written, with the new size of the object and the rebate of its input (0 if it
\* is no input), and once for each deleted id that is an input, with size 0 and
\* the rebate of the input, and never for a deleted id that is no input; after
\* it every object in written, the immutable ones too, has the rebate the meter
\* returned for it, and the byte total handed to the computation charge is the
\* sum over written of the input size (or 0) and the new size, plus the input
\* sizes of the deleted inputs.  Said of the state charge_gas returns in when its
\* last pass succeeded: hist.calls counts the calls of the meter in that pass,
\* the computation charge included.
C32_StorageCharges ==
    hist.op = "charge_gas" /\ hist.err2 = NoErr =>
        /\ hist.calls = Cardinality(DOMAIN written)
                          + Cardinality(DOMAIN deleted \cap DOMAIN input_objects) + 1
        /\ gas_status.storage_cost = SumOf(NewSize, DOMAIN written) * StoragePrice
        /\ gas_status.storage_rebate =
               SumOf(OldRebate, DOMAIN written) + SumOf(OldRebate, DOMAIN deleted)
        /\ \A id \in DOMAIN written :
               written[id].obj.storage_rebate = NewSize[id] * StoragePrice
        /\ gas_status.computation_cost =
               InitialComputationCost
                 + ComputationPerByte * (SumOf(OldSize, DOMAIN written)
                                           + SumOf(NewSize, DOMAIN written)
                                           + SumOf(OldSize, DOMAIN deleted))

\* A first pass that succeeds with an immutable package created, a deleted input
\* (a merged gas coin) and a deleted id that is no input.
C32_Witness ==
    /\ hist.op = "charge_gas" /\ hist.err1 = NoErr /\ hist.err2 = NoErr
    /\ \E id \in DOMAIN written : is_immutable(written[id].obj)
    /\ DOMAIN deleted \cap DOMAIN input_objects # {}
    /\ DOMAIN deleted \ DOMAIN input_objects # {}

\* C33: a mutable Move input that is no coin, that the execution neither wrote
\* nor deleted (here: the execution made no call at all) and that
\* ensure_active_inputs_mutated wrote under the unused-input context, yields no
\* TransferObject and no MutateObject event in the output of into_inner.
C33_NoEventForUnusedInput ==
    inner # NoInner /\ nops = 0 =>
        \A id \in DOMAIN written :
            written[id].ctx = CtxUnusedInput(Sender) /\ ~is_coin(written[id].obj) =>
                \A i \in DOMAIN inner.events :
                    inner.events[i].type \in {"TransferObject", "MutateObject"}
                        => inner.events[i].object_id # id

\* C34: the gas operations of the engine keep written and deleted disjoint:
\* from a state where no id is in both maps and no gas coin of the list gas was
\* deleted by the execution, smash_gas and charge_gas (with the resets it makes,
\* the insertion of the gas coin into written and the forced mutation of the
\* unused inputs), on each of their paths, lead to a state where no id is in
\* both maps.
C34_GasOperationsKeepDisjoint ==
    [][/\ hist'.op \in {"smash_gas", "charge_gas"}
       /\ DOMAIN written \cap DOMAIN deleted = {}
       /\ \A g \in GasIds : g \in DOMAIN deleted => deleted[g].ctx # UserCtx
       => DOMAIN written' \cap DOMAIN deleted' = {}]_vars

====
